---- MODULE Spec2Model ----
(***************************************************************************)
(* State-machine model of Shared/DECtalkBridge.c: the bridge between an    *)
(* application and the DECtalk text-to-speech engine.                      *)
(*                                                                         *)
(* Every public operation of the bridge is a sequence of steps of the      *)
(* calling thread.  A step boundary is placed wherever another thread can  *)
(* observe or change the shared session state (g_initialized, g_ttsHandle, *)
(* g_inMemoryOpen, g_currentVoice): the operations that take g_mutex block *)
(* in their lock step, the operations that take no lock (set_voice, reset, *)
(* sync, set_rate, get_rate, set_volume) are split between their test of   *)
(* the session state and their engine call.                                *)
(*                                                                         *)
(* The engine (dectalk/dtk/ttsapi.h) is not part of the sources; it is the *)
(* environment.  Its state is the record eng, its calls are the Eng*       *)
(* operators, and every outcome the bridge tests (a status code) is an     *)
(* input chosen with \E.  Fill notifications (ttsCallback) are delivered   *)
(* on the thread that submitted the utterance, while it is inside          *)
(* TextToSpeechSpeak/TextToSpeechSync.                                     *)
(*                                                                         *)
(* dectalk_synthesize_with_callback is dectalk_synthesize on a scratch     *)
(* buffer followed by the caller's callback.  dectalk_extract_text_from_   *)
(* ssml touches none of the session state: its call is the variable ex,    *)
(* one step for each pass of its loop.                                     *)
(***************************************************************************)
EXTENDS Integers, Sequences, FiniteSets, TLC

(***************************************************************************)
(* Bounds of the model.                                                    *)
(***************************************************************************)
\* handles the engine can hand out (addresses of session objects; reusable)
NumHandles == 2
\* samples the engine produces for one utterance, at most
MaxDeliver == 4
\* largest caller buffer, in samples
MaxBufferSize == 3
\* pieces of text (characters, entities, tags) an SSML input is made of, at most
MaxTokens == 2

(***************************************************************************)
(* Program constants.                                                      *)
(***************************************************************************)
NUM_BUFFERS == 4
DECtalkVoicePaul == 0
DECtalkVoiceBetty == 1
DECtalkVoiceCount == 9
DECtalkErrorNone == 0
DECtalkErrorInitFailed == 1
DECtalkErrorSynthFailed == 2
DECtalkErrorInvalidVoice == 3
SampleBytes == 2
RateMin == 75
RateMax == 600
RateDefault == 180
VolumeMax == 100
NULL == 0
DECTALK_SAMPLE_RATE == 11025
\* the seconds of audio dectalk_synthesize_with_callback makes room for
ScratchSeconds == 60

Threads == {1, 2}
Handles == 1..NumHandles
Chunks == 1..NUM_BUFFERS

\* g_voiceCommands, for the voices the model's callers use
g_voiceCommands ==
    [v \in 0..(DECtalkVoiceCount - 1) |->
        CASE v = 0 -> "[:np]" [] v = 1 -> "[:nb]" [] v = 2 -> "[:nh]"
          [] v = 3 -> "[:nf]" [] v = 4 -> "[:nd]" [] v = 5 -> "[:nk]"
          [] v = 6 -> "[:nu]" [] v = 7 -> "[:nr]" [] OTHER -> "[:nw]"]

(***************************************************************************)
(* Inputs of the callers.                                                  *)
(***************************************************************************)
NullText == "NULL"
Texts == {"hi"}
VoiceArgs == {DECtalkVoicePaul, DECtalkVoiceBetty, DECtalkVoiceCount}
BufferSizes == {0 - 1, 0, 1, MaxBufferSize}
\* byte lengths the engine reports for a chunk
FillLens == {0, SampleBytes, 2 * SampleBytes}
RateArgs == {RateMin - 25, RateDefault + 20, RateMax + 100}
VolumeArgs == {VolumeMax + 50}
\* the argument triples (text, buffer, samplesWritten) of dectalk_synthesize:
\* all three present, or one of them NULL
SynArgs ==
    {[text |-> x, buffer |-> TRUE, sw |-> TRUE] : x \in Texts}
      \cup {[text |-> NullText, buffer |-> TRUE, sw |-> TRUE],
            [text |-> "hi", buffer |-> FALSE, sw |-> TRUE],
            [text |-> "hi", buffer |-> TRUE, sw |-> FALSE]}

\* the valid triple and one with a NULL
SynArgsFew ==
    {[text |-> "hi", buffer |-> TRUE, sw |-> TRUE],
     [text |-> NullText, buffer |-> TRUE, sw |-> TRUE]}

\* the thread that synthesizes in SpecSink
SinkCaller == CHOOSE t \in Threads : TRUE

VARIABLES
    pc,                     \* pc[t]: the position of thread t
    loc,                    \* loc[t]: arguments, locals and result of t's call
    g_mutex,                \* the owner of g_mutex, NULL when free
    g_ttsHandle,
    g_currentVoice,
    g_initialized,
    g_inMemoryOpen,
    g_outputBuffer,         \* the thread whose buffer is installed, NULL if none
    g_outputBufferSize,
    g_outputSamplesWritten,
    g_ttsBuffers,           \* g_ttsBuffers[i].dwBufferLength
    eng,                    \* the engine
    sinkCells,              \* indices of the installed buffer written by memcpy
    delivered,              \* samples the engine has handed over in the running synthesis
    staged,                 \* the voice of a set_voice that ran with no session
                            \* started and no other call running, until it is used
    releases,               \* TextToSpeechShutdown was called on a released handle
    probe,                  \* the set_rate / get_rate pair running with no step in between
    ex                      \* the call of dectalk_extract_text_from_ssml: its
                            \* arguments, its locals and the output buffer

globals == <<g_ttsHandle, g_currentVoice, g_initialized, g_inMemoryOpen>>
sink == <<g_outputBuffer, g_outputBufferSize, g_outputSamplesWritten, sinkCells, delivered>>
bridge == <<pc, loc, g_mutex, globals, sink, g_ttsBuffers, eng, staged, releases, probe>>
vars == <<bridge, ex>>

(***************************************************************************)
(* The engine.                                                             *)
(***************************************************************************)
EngIdle ==
    [live |-> {}, mem |-> FALSE, queue |-> <<>>, speaker |-> DECtalkVoicePaul,
     rate |-> RateDefault, volume |-> 0, busy |-> FALSE]

\* a handle the engine accepts: the session it names is started and not shut down
EngValid(e, h) == h \in e.live

\* TextToSpeechStartupExFonix: a new session under handle h
EngStartup(e, h) == [EngIdle EXCEPT !.live = e.live \cup {h}]

\* TextToSpeechShutdown: the session is released with all it holds
EngShutdown(e, h) == IF EngValid(e, h) THEN [EngIdle EXCEPT !.live = e.live \ {h}] ELSE e

\* TextToSpeechOpenInMemory
EngOpenInMemory(e, h) == IF EngValid(e, h) THEN [e EXCEPT !.mem = TRUE] ELSE e

\* TextToSpeechCloseInMemory: the queue of memory buffers goes with the mode
EngCloseInMemory(e, h) ==
    IF EngValid(e, h) THEN [e EXCEPT !.mem = FALSE, !.queue = <<>>] ELSE e

\* the chunks the engine holds
EngHeld(e) == {e.queue[i] : i \in DOMAIN e.queue}

\* TextToSpeechAddBuffer: chunk c joins the queue (rejected outside in-memory
\* mode; a chunk the engine already holds keeps its place)
EngAddBuffer(e, h, c) ==
    IF EngValid(e, h) /\ e.mem /\ c \notin EngHeld(e)
    THEN [e EXCEPT !.queue = Append(@, c)] ELSE e

\* TextToSpeechSetSpeaker
EngSetSpeaker(e, h, v) == IF EngValid(e, h) THEN [e EXCEPT !.speaker = v] ELSE e

\* TextToSpeechSpeak, accepted
EngSpeak(e, h, s) == IF EngValid(e, h) THEN [e EXCEPT !.busy = TRUE] ELSE e

\* TextToSpeechSync returns: the utterance is complete
EngSync(e, h) == IF EngValid(e, h) THEN [e EXCEPT !.busy = FALSE] ELSE e

\* TextToSpeechReset: pending speech is dropped
EngReset(e, h) == IF EngValid(e, h) THEN [e EXCEPT !.busy = FALSE] ELSE e

\* TextToSpeechSetRate / TextToSpeechSetVolume: the engine stores what it is sent
EngSetRate(e, h, r) == IF EngValid(e, h) THEN [e EXCEPT !.rate = r] ELSE e
EngSetVolume(e, h, v) == IF EngValid(e, h) THEN [e EXCEPT !.volume = v] ELSE e

(***************************************************************************)
(* Threads.                                                                *)
(***************************************************************************)
NoLoc ==
    [op |-> "none", text |-> NullText, buffer |-> FALSE, sw |-> FALSE, size |-> 0,
     arg |-> 0, h |-> NULL, nested |-> FALSE, result |-> 0,
     spk |-> 0, full |-> "", touched |-> FALSE, out |-> 0,
     wrap |-> FALSE, calls |-> 0, count |-> 0, held |-> FALSE, closed |-> FALSE]

NoProbe == [thr |-> NULL, wpm |-> 0, stage |-> "none", got |-> 0]

\* no call of dectalk_extract_text_from_ssml
NoEx ==
    [state |-> "none", ssml |-> <<>>, hasSsml |-> FALSE, plainText |-> FALSE,
     maxLength |-> 0, src |-> 1, dst |-> 0, written |-> 0, inTag |-> FALSE,
     out |-> <<>>, term |-> 0 - 1, result |-> 0]

\* the state of the bridge before any call
BridgeInit ==
    /\ pc = [t \in Threads |-> "idle"]
    /\ loc = [t \in Threads |-> NoLoc]
    /\ g_mutex = NULL
    /\ g_ttsHandle = NULL
    /\ g_currentVoice = DECtalkVoicePaul
    /\ g_initialized = FALSE
    /\ g_inMemoryOpen = FALSE
    /\ g_outputBuffer = NULL
    /\ g_outputBufferSize = 0
    /\ g_outputSamplesWritten = 0
    /\ g_ttsBuffers = [c \in Chunks |-> 0]
    /\ eng = EngIdle
    /\ sinkCells = {}
    /\ delivered = 0
    /\ staged = {}
    /\ releases = FALSE
    /\ probe = NoProbe

Init ==
    /\ BridgeInit
    /\ ex = NoEx

\* pthread_mutex_lock can return
MutexFree == g_mutex = NULL

\* the operation returns to its caller with result r
Return(t, r) ==
    /\ pc' = [pc EXCEPT ![t] = "ret"]
    /\ loc' = [loc EXCEPT ![t] = [NoLoc EXCEPT !.op = loc[t].op, !.size = loc[t].size,
                                                !.arg = loc[t].arg, !.result = r,
                                                !.wrap = loc[t].wrap]]

\* the caller takes the result; the thread is free for its next call
Finish(t) ==
    /\ pc[t] = "ret"
    /\ ~loc[t].wrap
    /\ pc' = [pc EXCEPT ![t] = "idle"]
    /\ loc' = [loc EXCEPT ![t] = NoLoc]
    /\ probe' = IF probe.thr = t /\ probe.stage = "set" THEN probe ELSE NoProbe
    /\ UNCHANGED <<g_mutex, globals, sink, g_ttsBuffers, eng, staged, releases, ex>>

\* a step that is not part of a set_rate / get_rate pair ends the pair
NoPair == probe' = NoProbe

(***************************************************************************)
(* dectalk_init (also called by dectalk_synthesize: loc[t].nested).        *)
(***************************************************************************)
\* the return of dectalk_init, to the application or into dectalk_synthesize
InitReturn(t, r) ==
    IF loc[t].nested
    THEN /\ pc' = [pc EXCEPT ![t] = "syn_initret"]
         /\ loc' = [loc EXCEPT ![t].result = r]
    ELSE Return(t, r)

InitCall(t) ==
    /\ pc[t] = "idle"
    /\ pc' = [pc EXCEPT ![t] = "init_lock"]
    /\ loc' = [loc EXCEPT ![t] = [NoLoc EXCEPT !.op = "init"]]
    /\ NoPair
    /\ UNCHANGED <<g_mutex, globals, sink, g_ttsBuffers, eng, staged, releases, ex>>

\* dectalk_init without the test of g_initialized
InitLockNoTest(t) ==
    /\ pc[t] = "init_lock"
    /\ MutexFree
    /\ g_mutex' = t
    /\ pc' = [pc EXCEPT ![t] = "init_start"]
    /\ NoPair
    /\ UNCHANGED <<loc, globals, sink, g_ttsBuffers, eng, staged, releases, ex>>

\* lines 128-133: lock; already initialized: unlock and return success
InitLock(t) ==
    /\ pc[t] = "init_lock"
    /\ MutexFree
    /\ IF g_initialized
       THEN /\ InitReturn(t, DECtalkErrorNone)
            /\ UNCHANGED g_mutex
       ELSE /\ g_mutex' = t
            /\ pc' = [pc EXCEPT ![t] = "init_start"]
            /\ UNCHANGED loc
    /\ NoPair
    /\ UNCHANGED <<globals, sink, g_ttsBuffers, eng, staged, releases, ex>>

\* lines 136-157, startup accepted: the pool is zeroed, the engine hands out h
InitStartOk(t, h) ==
    /\ pc[t] = "init_start"
    /\ h \notin eng.live
    /\ g_ttsBuffers' = [c \in Chunks |-> 0]
    /\ eng' = EngStartup(eng, h)
    /\ g_ttsHandle' = h
    /\ pc' = [pc EXCEPT ![t] = "init_set"]
    /\ NoPair
    /\ UNCHANGED <<loc, g_mutex, g_currentVoice, g_initialized, g_inMemoryOpen, sink,
                   staged, releases, ex>>

\* lines 136-163, startup rejected: unlock and return InitFailed
InitStartFail(t) ==
    /\ pc[t] = "init_start"
    /\ g_ttsBuffers' = [c \in Chunks |-> 0]
    /\ g_mutex' = NULL
    /\ InitReturn(t, DECtalkErrorInitFailed)
    /\ NoPair
    /\ UNCHANGED <<globals, sink, eng, staged, releases, ex>>

\* line 165
InitSet(t) ==
    /\ pc[t] = "init_set"
    /\ g_initialized' = TRUE
    /\ pc' = [pc EXCEPT ![t] = "init_voice"]
    /\ NoPair
    /\ UNCHANGED <<loc, g_mutex, g_ttsHandle, g_currentVoice, g_inMemoryOpen, sink,
                   g_ttsBuffers, eng, staged, releases, ex>>

\* lines 166-171
InitVoice(t) ==
    /\ pc[t] = "init_voice"
    /\ g_currentVoice' = DECtalkVoicePaul
    /\ g_mutex' = NULL
    /\ InitReturn(t, DECtalkErrorNone)
    /\ NoPair
    /\ UNCHANGED <<g_ttsHandle, g_initialized, g_inMemoryOpen, sink, g_ttsBuffers, eng,
                   staged, releases, ex>>

(***************************************************************************)
(* dectalk_shutdown.                                                       *)
(***************************************************************************)
ShutCall(t) ==
    /\ pc[t] = "idle"
    /\ pc' = [pc EXCEPT ![t] = "shut_lock"]
    /\ loc' = [loc EXCEPT ![t] = [NoLoc EXCEPT !.op = "shutdown"]]
    /\ NoPair
    /\ UNCHANGED <<g_mutex, globals, sink, g_ttsBuffers, eng, staged, releases, ex>>

\* lines 175-179: lock; no live session: unlock and return; else call
\* TextToSpeechCloseInMemory if in-memory mode is open
ShutLock(t) ==
    /\ pc[t] = "shut_lock"
    /\ MutexFree
    /\ IF g_initialized /\ g_ttsHandle # NULL
       THEN /\ g_mutex' = t
            /\ UNCHANGED loc
            /\ IF g_inMemoryOpen
               THEN /\ eng' = EngCloseInMemory(eng, g_ttsHandle)
                    /\ pc' = [pc EXCEPT ![t] = "shut_flag"]
               ELSE /\ pc' = [pc EXCEPT ![t] = "shut_rel"]
                    /\ UNCHANGED eng
       ELSE /\ Return(t, 0)
            /\ UNCHANGED <<g_mutex, eng>>
    /\ NoPair
    /\ UNCHANGED <<globals, sink, g_ttsBuffers, staged, releases, ex>>

\* dectalk_shutdown leaving g_inMemoryOpen as it is
ShutFlagKeeps(t) ==
    /\ pc[t] = "shut_flag"
    /\ pc' = [pc EXCEPT ![t] = "shut_rel"]
    /\ NoPair
    /\ UNCHANGED <<loc, g_mutex, globals, sink, g_ttsBuffers, eng, staged, releases, ex>>

\* line 180
ShutFlag(t) ==
    /\ pc[t] = "shut_flag"
    /\ g_inMemoryOpen' = FALSE
    /\ pc' = [pc EXCEPT ![t] = "shut_rel"]
    /\ NoPair
    /\ UNCHANGED <<loc, g_mutex, g_ttsHandle, g_currentVoice, g_initialized, sink,
                   g_ttsBuffers, eng, staged, releases, ex>>

\* line 182
ShutRelease(t) ==
    /\ pc[t] = "shut_rel"
    /\ eng' = EngShutdown(eng, g_ttsHandle)
    /\ releases' = (releases \/ ~EngValid(eng, g_ttsHandle))
    /\ pc' = [pc EXCEPT ![t] = "shut_clr"]
    /\ NoPair
    /\ UNCHANGED <<loc, g_mutex, globals, sink, g_ttsBuffers, staged, ex>>

\* dectalk_shutdown leaving g_ttsHandle and g_initialized as they are
ShutClearForgets(t) ==
    /\ pc[t] = "shut_clr"
    /\ g_mutex' = NULL
    /\ Return(t, 0)
    /\ NoPair
    /\ UNCHANGED <<globals, sink, g_ttsBuffers, eng, staged, releases, ex>>

\* lines 183-187
ShutClear(t) ==
    /\ pc[t] = "shut_clr"
    /\ g_ttsHandle' = NULL
    /\ g_initialized' = FALSE
    /\ g_mutex' = NULL
    /\ Return(t, 0)
    /\ NoPair
    /\ UNCHANGED <<g_currentVoice, g_inMemoryOpen, sink, g_ttsBuffers, eng, staged, releases, ex>>

(***************************************************************************)
(* The clamp-and-copy rule of ttsCallback and of the drain loop.           *)
(***************************************************************************)
\* dwBufferLength / sizeof(int16_t)
SamplesOf(len) == len \div SampleBytes

\* the clamp taken against the capacity instead of the remaining space
SamplesToWriteAgainstCapacity(len, size, written) ==
    IF SamplesOf(len) > size THEN size ELSE SamplesOf(len)

\* samplesToWrite after the clamp to the remaining space (lines 72-77, 280-285)
SamplesToWrite(len, size, written) ==
    LET samplesToWrite == SamplesOf(len)
        remainingSpace == size - written
    IN  IF samplesToWrite > remainingSpace THEN remainingSpace ELSE samplesToWrite

\* the copy without the clamp
CopiedNoClamp(len, size, written) == SamplesOf(len)

\* a chunk that does not fit whole is dropped instead of cut
CopiedAllOrNothing(len, size, written) ==
    IF SamplesOf(len) <= size - written THEN SamplesOf(len) ELSE 0

\* the samples memcpy copies (lines 79-84, 287-292): none unless samplesToWrite > 0
Copied(len, size, written) ==
    LET n == SamplesToWrite(len, size, written) IN IF n > 0 THEN n ELSE 0

\* the cells of the caller's buffer that memcpy writes
CopyCells(len, size, written) ==
    {i \in written..(written + Copied(len, size, written) - 1) : TRUE}

(***************************************************************************)
(* dectalk_synthesize.                                                     *)
(***************************************************************************)
SynCall(t, a, size) ==
    /\ pc[t] = "idle"
    /\ pc' = [pc EXCEPT ![t] = "syn_lock"]
    /\ loc' = [loc EXCEPT ![t] = [NoLoc EXCEPT !.op = "synthesize", !.text = a.text,
                                    !.buffer = a.buffer, !.sw = a.sw, !.size = size]]
    /\ NoPair
    /\ UNCHANGED <<g_mutex, globals, sink, g_ttsBuffers, eng, staged, releases, ex>>

\* lines 209-213: lock; not initialized: unlock and call dectalk_init
SynLock(t) ==
    /\ pc[t] = "syn_lock"
    /\ MutexFree
    /\ IF ~g_initialized
       THEN /\ pc' = [pc EXCEPT ![t] = "init_lock"]
            /\ loc' = [loc EXCEPT ![t].nested = TRUE]
            /\ UNCHANGED g_mutex
       ELSE /\ g_mutex' = t
            /\ pc' = [pc EXCEPT ![t] = "syn_args"]
            /\ UNCHANGED loc
    /\ NoPair
    /\ UNCHANGED <<globals, sink, g_ttsBuffers, eng, staged, releases, ex>>

\* lines 214-216: dectalk_init has returned
SynInitRet(t) ==
    /\ pc[t] = "syn_initret"
    /\ IF loc[t].result # DECtalkErrorNone
       THEN Return(t, loc[t].result)
       ELSE /\ pc' = [pc EXCEPT ![t] = "syn_relock"]
            /\ UNCHANGED loc
    /\ NoPair
    /\ UNCHANGED <<g_mutex, globals, sink, g_ttsBuffers, eng, staged, releases, ex>>

\* dectalk_synthesize goes on after dectalk_init without taking the lock again
SynRelockMissing(t) ==
    /\ pc[t] = "syn_relock"
    /\ pc' = [pc EXCEPT ![t] = "syn_args"]
    /\ NoPair
    /\ UNCHANGED <<loc, g_mutex, globals, sink, g_ttsBuffers, eng, staged, releases, ex>>

\* line 217
SynRelock(t) ==
    /\ pc[t] = "syn_relock"
    /\ MutexFree
    /\ g_mutex' = t
    /\ pc' = [pc EXCEPT ![t] = "syn_args"]
    /\ NoPair
    /\ UNCHANGED <<loc, globals, sink, g_ttsBuffers, eng, staged, releases, ex>>

\* lines 220-228: a NULL argument: unlock and return SynthFailed; else install the sink
SynArgsStep(t) ==
    /\ pc[t] = "syn_args"
    /\ IF loc[t].text = NullText \/ ~loc[t].buffer \/ ~loc[t].sw
       THEN /\ g_mutex' = NULL
            /\ Return(t, DECtalkErrorSynthFailed)
            /\ UNCHANGED sink
       ELSE /\ g_outputBuffer' = t
            /\ g_outputBufferSize' = loc[t].size
            /\ g_outputSamplesWritten' = 0
            /\ sinkCells' = {}
            /\ delivered' = 0
            /\ pc' = [pc EXCEPT ![t] = "syn_open"]
            /\ UNCHANGED <<loc, g_mutex>>
    /\ NoPair
    /\ UNCHANGED <<globals, g_ttsBuffers, eng, staged, releases, ex>>

\* lines 231-233, in-memory mode already open, or opened by the engine
SynOpenOk(t) ==
    /\ pc[t] = "syn_open"
    /\ g_inMemoryOpen \/ EngValid(eng, g_ttsHandle)
    /\ IF g_inMemoryOpen
       THEN /\ pc' = [pc EXCEPT ![t] = "syn_arm"]
            /\ UNCHANGED eng
       ELSE /\ eng' = EngOpenInMemory(eng, g_ttsHandle)
            /\ pc' = [pc EXCEPT ![t] = "syn_opened"]
    /\ NoPair
    /\ UNCHANGED <<loc, g_mutex, globals, sink, g_ttsBuffers, staged, releases, ex>>

\* line 238
SynOpenSet(t) ==
    /\ pc[t] = "syn_opened"
    /\ g_inMemoryOpen' = TRUE
    /\ pc' = [pc EXCEPT ![t] = "syn_arm"]
    /\ NoPair
    /\ UNCHANGED <<loc, g_mutex, g_ttsHandle, g_currentVoice, g_initialized, sink,
                   g_ttsBuffers, eng, staged, releases, ex>>

\* the return on a failed TextToSpeechOpenInMemory without the unlock
SynOpenFailKeepsLock(t) ==
    /\ pc[t] = "syn_open"
    /\ ~g_inMemoryOpen
    /\ Return(t, DECtalkErrorSynthFailed)
    /\ NoPair
    /\ UNCHANGED <<g_mutex, globals, sink, g_ttsBuffers, eng, staged, releases, ex>>

\* lines 231-237, TextToSpeechOpenInMemory fails: unlock and return SynthFailed
SynOpenFail(t) ==
    /\ pc[t] = "syn_open"
    /\ ~g_inMemoryOpen
    /\ g_mutex' = NULL
    /\ Return(t, DECtalkErrorSynthFailed)
    /\ NoPair
    /\ UNCHANGED <<globals, sink, g_ttsBuffers, eng, staged, releases, ex>>

\* TextToSpeechAddBuffer for the chunks i..NUM_BUFFERS in turn
RECURSIVE QueueAll(_, _, _)
QueueAll(e, h, i) ==
    IF i > NUM_BUFFERS THEN e ELSE QueueAll(EngAddBuffer(e, h, i), h, i + 1)

\* lines 242-245: every chunk is reset to length zero and queued
SynArm(t) ==
    /\ pc[t] = "syn_arm"
    /\ g_ttsBuffers' = [c \in Chunks |-> 0]
    /\ eng' = QueueAll(eng, g_ttsHandle, 1)
    /\ pc' = [pc EXCEPT ![t] = "syn_voice"]
    /\ NoPair
    /\ UNCHANGED <<loc, g_mutex, globals, sink, staged, releases, ex>>

\* line 248
SynVoice(t) ==
    /\ pc[t] = "syn_voice"
    /\ eng' = EngSetSpeaker(eng, g_ttsHandle, g_currentVoice)
    /\ pc' = [pc EXCEPT ![t] = "syn_text"]
    /\ loc' = [loc EXCEPT ![t].spk = g_currentVoice]
    /\ NoPair
    /\ UNCHANGED <<g_mutex, globals, sink, g_ttsBuffers, staged, releases, ex>>

\* lines 251-262: the voice command of the current voice, then the text
SynText(t) ==
    /\ pc[t] = "syn_text"
    /\ loc' = [loc EXCEPT ![t].full = g_voiceCommands[g_currentVoice] \o loc[t].text]
    /\ pc' = [pc EXCEPT ![t] = "syn_speak"]
    /\ NoPair
    /\ UNCHANGED <<g_mutex, globals, sink, g_ttsBuffers, eng, staged, releases, ex>>

\* lines 255-259, malloc fails: unlock and return SynthFailed
SynTextNoMem(t) ==
    /\ pc[t] = "syn_text"
    /\ g_mutex' = NULL
    /\ Return(t, DECtalkErrorSynthFailed)
    /\ staged' = {}
    /\ NoPair
    /\ UNCHANGED <<globals, sink, g_ttsBuffers, eng, releases, ex>>

\* line 265, submission accepted
SynSpeakOk(t) ==
    /\ pc[t] = "syn_speak"
    /\ EngValid(eng, g_ttsHandle)
    /\ eng' = EngSpeak(eng, g_ttsHandle, loc[t].full)
    /\ pc' = [pc EXCEPT ![t] = "syn_sync"]
    /\ staged' = {}
    /\ NoPair
    /\ UNCHANGED <<loc, g_mutex, globals, sink, g_ttsBuffers, releases, ex>>

\* lines 265-271, submission rejected: free, unlock and return SynthFailed
SynSpeakFail(t) ==
    /\ pc[t] = "syn_speak"
    /\ g_mutex' = NULL
    /\ Return(t, DECtalkErrorSynthFailed)
    /\ staged' = {}
    /\ NoPair
    /\ UNCHANGED <<globals, sink, g_ttsBuffers, eng, releases, ex>>

\* lines 66-91, ttsCallback(TTS_MSG_BUFFER, c): e is the engine once it has
\* handed chunk c, filled with len bytes, to the callback
ttsCallback(e, c, len) ==
    IF len > 0 /\ g_outputBuffer # NULL
    THEN /\ g_outputSamplesWritten' =
                g_outputSamplesWritten
                  + Copied(len, g_outputBufferSize, g_outputSamplesWritten)
         /\ sinkCells' = sinkCells
                  \cup CopyCells(len, g_outputBufferSize, g_outputSamplesWritten)
         /\ g_ttsBuffers' = [g_ttsBuffers EXCEPT ![c] = 0]
         /\ eng' = EngAddBuffer(e, g_ttsHandle, c)
    ELSE /\ g_ttsBuffers' = [g_ttsBuffers EXCEPT ![c] = len]
         /\ eng' = e
         /\ UNCHANGED <<g_outputSamplesWritten, sinkCells>>

\* the engine, inside TextToSpeechSpeak / TextToSpeechSync of thread t, fills the
\* chunk at the head of its queue with len bytes and notifies the bridge; an
\* utterance has at most `most` samples
EngineFill(t, len, most) ==
    /\ pc[t] = "syn_sync"
    /\ eng.busy /\ eng.mem /\ eng.queue # <<>>
    /\ delivered + SamplesOf(len) <= most
    /\ ttsCallback([eng EXCEPT !.queue = Tail(@)], Head(eng.queue), len)
    /\ delivered' = delivered + SamplesOf(len)
    /\ NoPair
    /\ UNCHANGED <<pc, loc, g_mutex, globals, g_outputBuffer, g_outputBufferSize,
                   staged, releases, ex>>

\* the engine ends the utterance with len bytes in the chunk at the head of its
\* queue and keeps the chunk: the audio TextToSpeechReturnBuffer fetches
EngineKeep(t, len, most) ==
    /\ pc[t] = "syn_sync"
    /\ eng.busy /\ eng.mem /\ eng.queue # <<>>
    /\ len > 0
    /\ delivered + SamplesOf(len) <= most
    /\ g_ttsBuffers' = [g_ttsBuffers EXCEPT ![Head(eng.queue)] = len]
    /\ eng' = [eng EXCEPT !.busy = FALSE]
    /\ NoPair
    /\ UNCHANGED <<pc, loc, g_mutex, globals, sink, staged, releases, ex>>

\* line 274: TextToSpeechSync returns
SynSync(t) ==
    /\ pc[t] = "syn_sync"
    /\ eng' = EngSync(eng, g_ttsHandle)
    /\ pc' = [pc EXCEPT ![t] = "syn_drain"]
    /\ NoPair
    /\ UNCHANGED <<loc, g_mutex, globals, sink, g_ttsBuffers, staged, releases, ex>>

\* lines 278-295, one pass of the loop: TextToSpeechReturnBuffer hands back the
\* chunk at the head of the engine's queue
SynDrain(t) ==
    /\ pc[t] = "syn_drain"
    /\ EngValid(eng, g_ttsHandle) /\ eng.queue # <<>>
    /\ LET c == Head(eng.queue)
           len == g_ttsBuffers[c]
       IN  /\ eng' = [eng EXCEPT !.queue = Tail(@)]
           /\ IF len > 0
              THEN /\ g_outputSamplesWritten' =
                          g_outputSamplesWritten
                            + Copied(len, g_outputBufferSize, g_outputSamplesWritten)
                   /\ sinkCells' = sinkCells
                            \cup CopyCells(len, g_outputBufferSize, g_outputSamplesWritten)
              ELSE UNCHANGED <<g_outputSamplesWritten, sinkCells>>
           /\ delivered' = delivered + SamplesOf(len)
    /\ NoPair
    /\ UNCHANGED <<pc, loc, g_mutex, globals, g_outputBuffer, g_outputBufferSize,
                   g_ttsBuffers, staged, releases, ex>>

\* line 278: TextToSpeechReturnBuffer has no chunk to hand back; the loop ends
SynDrainEnd(t) ==
    /\ pc[t] = "syn_drain"
    /\ ~(EngValid(eng, g_ttsHandle) /\ eng.queue # <<>>)
    /\ pc' = [pc EXCEPT ![t] = "syn_fin"]
    /\ NoPair
    /\ UNCHANGED <<loc, g_mutex, globals, sink, g_ttsBuffers, eng, staged, releases, ex>>

\* lines 297-302
SynFinish(t) ==
    /\ pc[t] = "syn_fin"
    /\ g_mutex' = NULL
    /\ pc' = [pc EXCEPT ![t] = "ret"]
    /\ loc' = [loc EXCEPT ![t] = [NoLoc EXCEPT !.op = loc[t].op, !.size = loc[t].size,
                                                !.result = DECtalkErrorNone,
                                                !.arg = delivered,
                                                !.touched = TRUE,
                                                !.out = g_outputSamplesWritten,
                                                !.wrap = loc[t].wrap]]
    /\ delivered' = 0
    /\ NoPair
    /\ UNCHANGED <<globals, g_outputBuffer, g_outputBufferSize, g_outputSamplesWritten,
                   sinkCells, g_ttsBuffers, eng, staged, releases, ex>>

(***************************************************************************)
(* dectalk_synthesize_with_callback: dectalk_synthesize into a scratch      *)
(* buffer (loc[t].wrap), then the caller's callback.                       *)
(***************************************************************************)
\* line 311: the capacity of the scratch buffer, in samples
ScratchSize == DECTALK_SAMPLE_RATE * ScratchSeconds

\* lines 306-318: no callback: return SynthFailed; else allocate the scratch
\* buffer and call dectalk_synthesize on it
SwcCall(t, text, callback) ==
    /\ pc[t] = "idle"
    /\ IF ~callback
       THEN /\ pc' = [pc EXCEPT ![t] = "ret"]
            /\ loc' = [loc EXCEPT ![t] = [NoLoc EXCEPT !.op = "synthesize_with_callback",
                                            !.result = DECtalkErrorSynthFailed]]
       ELSE /\ pc' = [pc EXCEPT ![t] = "syn_lock"]
            /\ loc' = [loc EXCEPT ![t] = [NoLoc EXCEPT !.op = "synthesize", !.text = text,
                                            !.buffer = TRUE, !.sw = TRUE,
                                            !.size = ScratchSize, !.wrap = TRUE]]
    /\ NoPair
    /\ UNCHANGED <<g_mutex, globals, sink, g_ttsBuffers, eng, staged, releases, ex>>

\* lines 312-315, malloc fails: return SynthFailed
SwcNoMem(t) ==
    /\ pc[t] = "idle"
    /\ pc' = [pc EXCEPT ![t] = "ret"]
    /\ loc' = [loc EXCEPT ![t] = [NoLoc EXCEPT !.op = "synthesize_with_callback",
                                    !.result = DECtalkErrorSynthFailed]]
    /\ NoPair
    /\ UNCHANGED <<g_mutex, globals, sink, g_ttsBuffers, eng, staged, releases, ex>>

\* the callback invoked whatever the sample count
SwcDeliverAlways(t) ==
    /\ pc[t] = "ret" /\ loc[t].wrap
    /\ loc' = [loc EXCEPT ![t].op = "synthesize_with_callback",
                          ![t].wrap = FALSE,
                          ![t].calls = IF loc[t].result = DECtalkErrorNone
                                       THEN @ + 1 ELSE @,
                          ![t].count = loc[t].out,
                          ![t].held = (g_mutex = t)]
    /\ NoPair
    /\ UNCHANGED <<pc, g_mutex, globals, sink, g_ttsBuffers, eng, staged, releases, ex>>

\* lines 320-325: dectalk_synthesize has returned; the callback is invoked with
\* samplesWritten if the result is None and samplesWritten > 0 (the local
\* samplesWritten is 0 unless dectalk_synthesize has set it); the result is
\* passed on
SwcDeliver(t) ==
    /\ pc[t] = "ret" /\ loc[t].wrap
    /\ LET samplesWritten == IF loc[t].touched THEN loc[t].out ELSE 0
       IN  IF loc[t].result = DECtalkErrorNone /\ samplesWritten > 0
           THEN loc' = [loc EXCEPT ![t].op = "synthesize_with_callback",
                                   ![t].wrap = FALSE,
                                   ![t].calls = @ + 1,
                                   ![t].count = samplesWritten,
                                   ![t].held = (g_mutex = t)]
           ELSE loc' = [loc EXCEPT ![t].op = "synthesize_with_callback",
                                   ![t].wrap = FALSE]
    /\ NoPair
    /\ UNCHANGED <<pc, g_mutex, globals, sink, g_ttsBuffers, eng, staged, releases, ex>>

(***************************************************************************)
(* The operations that take no lock.                                       *)
(***************************************************************************)
\* the test `g_initialized && g_ttsHandle`
SessionLive == g_initialized /\ g_ttsHandle # NULL

\* the handle an engine call passes after that test: g_ttsHandle as read for
\* the test, or as read again for the call
HandleRead(t) == {loc[t].h, g_ttsHandle}

\* the status (TRUE: MMSYSERR_NOERROR) of an engine call on handle h: success
\* on a live session, an error on NULL, anything on a released handle
EngStatus(e, h) ==
    IF EngValid(e, h) THEN {TRUE} ELSE IF h = NULL THEN {FALSE} ELSE BOOLEAN

\* `status == MMSYSERR_NOERROR ? 0 : -1`
ZeroOrMinusOne(ok) == IF ok THEN 0 ELSE 0 - 1

\* the test passed: on to the engine call at pc p
EnterCall(t, p, name, a) ==
    /\ pc' = [pc EXCEPT ![t] = p]
    /\ loc' = [loc EXCEPT ![t] = [NoLoc EXCEPT !.op = name, !.arg = a, !.h = g_ttsHandle]]

\* the operation returns r without an engine call
ReturnAtOnce(t, name, a, r) ==
    /\ pc' = [pc EXCEPT ![t] = "ret"]
    /\ loc' = [loc EXCEPT ![t] = [NoLoc EXCEPT !.op = name, !.arg = a, !.result = r]]

\* no session is started and no other thread is inside a call
NoSessionAndAlone(t) ==
    /\ ~g_initialized /\ eng.live = {}
    /\ \A u \in Threads \ {t} : pc[u] = "idle"

\* dectalk_set_voice, lines 191-194
SetVoice(t, v) ==
    /\ pc[t] = "idle"
    /\ IF v < 0 \/ v >= DECtalkVoiceCount
       THEN /\ ReturnAtOnce(t, "set_voice", v, DECtalkErrorInvalidVoice)
            /\ UNCHANGED <<g_currentVoice, staged>>
       ELSE /\ g_currentVoice' = v
            /\ staged' = IF NoSessionAndAlone(t) THEN {v} ELSE {}
            /\ pc' = [pc EXCEPT ![t] = "sv_chk"]
            /\ loc' = [loc EXCEPT ![t] = [NoLoc EXCEPT !.op = "set_voice", !.arg = v]]
    /\ NoPair
    /\ UNCHANGED <<g_mutex, g_ttsHandle, g_initialized, g_inMemoryOpen, sink,
                   g_ttsBuffers, eng, releases, ex>>

\* line 197 (and 201)
SetVoiceChk(t) ==
    /\ pc[t] = "sv_chk"
    /\ IF SessionLive
       THEN /\ EnterCall(t, "sv_push", "set_voice", loc[t].arg)
            /\ staged' = {}
       ELSE /\ Return(t, DECtalkErrorNone)
            /\ staged' = IF NoSessionAndAlone(t) THEN staged ELSE {}
    /\ NoPair
    /\ UNCHANGED <<g_mutex, globals, sink, g_ttsBuffers, eng, releases, ex>>

\* lines 198-201
SetVoicePush(t) ==
    /\ pc[t] = "sv_push"
    /\ \E h \in HandleRead(t) : eng' = EngSetSpeaker(eng, h, loc[t].arg)
    /\ Return(t, DECtalkErrorNone)
    /\ NoPair
    /\ UNCHANGED <<g_mutex, globals, sink, g_ttsBuffers, staged, releases, ex>>

\* dectalk_get_voice, line 205
GetVoice(t) ==
    /\ pc[t] = "idle"
    /\ ReturnAtOnce(t, "get_voice", 0, g_currentVoice)
    /\ NoPair
    /\ UNCHANGED <<g_mutex, globals, sink, g_ttsBuffers, eng, staged, releases, ex>>

\* dectalk_reset, line 441 (and 453)
ResetChk(t) ==
    /\ pc[t] = "idle"
    /\ IF SessionLive
       THEN EnterCall(t, "rst_reset", "reset", 0)
       ELSE ReturnAtOnce(t, "reset", 0, 0)
    /\ NoPair
    /\ UNCHANGED <<g_mutex, globals, sink, g_ttsBuffers, eng, staged, releases, ex>>

\* line 443
ResetEngine(t) ==
    /\ pc[t] = "rst_reset"
    /\ \E h \in HandleRead(t) : \E ok \in EngStatus(eng, h) :
          /\ eng' = EngReset(eng, h)
          /\ loc' = [loc EXCEPT ![t].result = ZeroOrMinusOne(ok)]
    /\ pc' = [pc EXCEPT ![t] = "rst_close"]
    /\ NoPair
    /\ UNCHANGED <<g_mutex, globals, sink, g_ttsBuffers, staged, releases, ex>>

\* line 446 (and 451): the read of g_inMemoryOpen (loc[t].closed: the call
\* found in-memory mode open)
ResetClose(t) ==
    /\ pc[t] = "rst_close"
    /\ pc' = [pc EXCEPT ![t] = IF g_inMemoryOpen THEN "rst_closing" ELSE "ret"]
    /\ loc' = [loc EXCEPT ![t].closed = g_inMemoryOpen]
    /\ NoPair
    /\ UNCHANGED <<g_mutex, globals, sink, g_ttsBuffers, eng, staged, releases, ex>>

\* line 447
ResetCloseEngine(t) ==
    /\ pc[t] = "rst_closing"
    /\ \E h \in HandleRead(t) : eng' = EngCloseInMemory(eng, h)
    /\ pc' = [pc EXCEPT ![t] = "rst_flag"]
    /\ NoPair
    /\ UNCHANGED <<loc, g_mutex, globals, sink, g_ttsBuffers, staged, releases, ex>>

\* lines 448-451
ResetCloseFlag(t) ==
    /\ pc[t] = "rst_flag"
    /\ g_inMemoryOpen' = FALSE
    /\ pc' = [pc EXCEPT ![t] = "ret"]
    /\ NoPair
    /\ UNCHANGED <<loc, g_mutex, g_ttsHandle, g_currentVoice, g_initialized, sink,
                   g_ttsBuffers, eng, staged, releases, ex>>

\* dectalk_sync, line 457 (and 460)
SyncChk(t) ==
    /\ pc[t] = "idle"
    /\ IF SessionLive
       THEN EnterCall(t, "sync_call", "sync", 0)
       ELSE ReturnAtOnce(t, "sync", 0, 0)
    /\ NoPair
    /\ UNCHANGED <<g_mutex, globals, sink, g_ttsBuffers, eng, staged, releases, ex>>

\* line 458: TextToSpeechSync returns once the engine has no utterance in progress
SyncEngine(t) ==
    /\ pc[t] = "sync_call"
    /\ \E h \in HandleRead(t) : \E ok \in EngStatus(eng, h) :
          /\ EngValid(eng, h) => ~eng.busy
          /\ Return(t, ZeroOrMinusOne(ok))
    /\ NoPair
    /\ UNCHANGED <<g_mutex, globals, sink, g_ttsBuffers, eng, staged, releases, ex>>

\* the clamp without its upper end
ClampRateNoUpper(wpm) == IF wpm < RateMin THEN RateMin ELSE wpm

\* the clamp of dectalk_set_rate, lines 466-467
ClampRate(wpm) == IF wpm < RateMin THEN RateMin ELSE IF wpm > RateMax THEN RateMax ELSE wpm

\* dectalk_set_rate, line 464 (and 470)
SetRateChk(t, wpm) ==
    /\ pc[t] = "idle"
    /\ IF SessionLive
       THEN /\ EnterCall(t, "sr_call", "set_rate", wpm)
            /\ probe' = [NoProbe EXCEPT !.thr = t, !.wpm = wpm, !.stage = "setting"]
       ELSE /\ ReturnAtOnce(t, "set_rate", wpm, 0 - 1)
            /\ probe' = [NoProbe EXCEPT !.thr = t, !.wpm = wpm, !.stage = "set"]
    /\ UNCHANGED <<g_mutex, globals, sink, g_ttsBuffers, eng, staged, releases, ex>>

\* lines 466-468
SetRateEngine(t) ==
    /\ pc[t] = "sr_call"
    /\ \E h \in HandleRead(t) : \E ok \in EngStatus(eng, h) :
          /\ eng' = EngSetRate(eng, h, ClampRate(loc[t].arg))
          /\ Return(t, ZeroOrMinusOne(ok))
    /\ probe' = IF probe.thr = t /\ probe.stage = "setting"
                THEN [probe EXCEPT !.stage = "set"] ELSE NoProbe
    /\ UNCHANGED <<g_mutex, globals, sink, g_ttsBuffers, staged, releases, ex>>

\* what TextToSpeechGetRate can store in `rate` for handle h: the session's rate,
\* nothing on NULL, anything on a released handle
EngGetRate(e, h) ==
    IF EngValid(e, h) THEN {e.rate} ELSE IF h = NULL THEN {} ELSE {0, RateMin, e.rate}

\* dectalk_get_rate, line 474 (and 480)
GetRateChk(t) ==
    /\ pc[t] = "idle"
    /\ IF SessionLive
       THEN /\ EnterCall(t, "gr_call", "get_rate", 0)
            /\ probe' = IF probe.thr = t /\ probe.stage = "set"
                        THEN [probe EXCEPT !.stage = "getting"] ELSE NoProbe
       ELSE /\ ReturnAtOnce(t, "get_rate", 0, RateDefault)
            /\ probe' = IF probe.thr = t /\ probe.stage = "set"
                        THEN [probe EXCEPT !.stage = "got", !.got = RateDefault]
                        ELSE NoProbe
    /\ UNCHANGED <<g_mutex, globals, sink, g_ttsBuffers, eng, staged, releases, ex>>

\* lines 475-480
GetRateEngine(t) ==
    /\ pc[t] = "gr_call"
    /\ \E h \in HandleRead(t) : \E ok \in EngStatus(eng, h) :
       \E r \in (IF ok THEN EngGetRate(eng, h) ELSE {RateDefault}) :
          /\ Return(t, r)
          /\ probe' = IF probe.thr = t /\ probe.stage = "getting"
                      THEN [probe EXCEPT !.stage = "got", !.got = r] ELSE NoProbe
    /\ UNCHANGED <<g_mutex, globals, sink, g_ttsBuffers, eng, staged, releases, ex>>

\* the clamp of dectalk_set_volume and the two channels, lines 486-491
VolumeWord(volume) ==
    LET vol == IF volume < 0 THEN 0 ELSE IF volume > VolumeMax THEN VolumeMax ELSE volume
    IN  vol + vol * (2 ^ 16)

\* dectalk_set_volume, line 484 (and 494)
SetVolumeChk(t, volume) ==
    /\ pc[t] = "idle"
    /\ IF SessionLive
       THEN EnterCall(t, "vol_call", "set_volume", volume)
       ELSE ReturnAtOnce(t, "set_volume", volume, 0 - 1)
    /\ NoPair
    /\ UNCHANGED <<g_mutex, globals, sink, g_ttsBuffers, eng, staged, releases, ex>>

\* lines 486-492
SetVolumeEngine(t) ==
    /\ pc[t] = "vol_call"
    /\ \E h \in HandleRead(t) : \E ok \in EngStatus(eng, h) :
          /\ eng' = EngSetVolume(eng, h, VolumeWord(loc[t].arg))
          /\ Return(t, ZeroOrMinusOne(ok))
    /\ NoPair
    /\ UNCHANGED <<g_mutex, globals, sink, g_ttsBuffers, staged, releases, ex>>

(***************************************************************************)
(* dectalk_extract_text_from_ssml.  A character is its code, a string the  *)
(* sequence of its characters; src and semi are 1-based positions in ssml  *)
(* (Len + 1 is the terminating NUL), dst is an offset into plainText.      *)
(***************************************************************************)
\* the code of a character
Ord(ch) ==
    CASE ch = " " -> 32 [] ch = "\"" -> 34 [] ch = "#" -> 35 [] ch = "&" -> 38
      [] ch = "'" -> 39 [] ch = "+" -> 43 [] ch = "-" -> 45 [] ch = "0" -> 48
      [] ch = "1" -> 49 [] ch = "3" -> 51 [] ch = "5" -> 53 [] ch = "6" -> 54
      [] ch = "8" -> 56 [] ch = "9" -> 57 [] ch = ":" -> 58 [] ch = ";" -> 59
      [] ch = "<" -> 60 [] ch = ">" -> 62 [] ch = "A" -> 65 [] ch = "[" -> 91
      [] ch = "]" -> 93 [] ch = "a" -> 97 [] ch = "b" -> 98 [] ch = "g" -> 103
      [] ch = "l" -> 108 [] ch = "m" -> 109 [] ch = "o" -> 111 [] ch = "p" -> 112
      [] ch = "q" -> 113 [] ch = "s" -> 115 [] ch = "t" -> 116 [] ch = "u" -> 117
      [] ch = "x" -> 120

\* the string spelled by the characters t[1], t[2], ...
Str(t) == [i \in DOMAIN t |-> Ord(t[i])]

\* *(s + i - 1): the character at position i, the NUL after the last one
CharAt(s, i) == IF i \in DOMAIN s THEN s[i] ELSE 0

\* strncmp(s + i - 1, lit, strlen(lit)) == 0
StartsWith(s, i, lit) == \A k \in DOMAIN lit : CharAt(s, i + k - 1) = lit[k]

\* strchr(s + i - 1, c): the position of the first c at or after i, NULL if none
StrChr(s, i, c) ==
    LET at == {k \in DOMAIN s : k >= i /\ s[k] = c}
    IN  IF at = {} THEN NULL ELSE CHOOSE k \in at : \A j \in at : k <= j

IsSpace(c) == c = 32 \/ c \in 9..13
IsDigit(c) == c \in 48..57

\* the first position at or after i that holds no white space
RECURSIVE SkipSpace(_, _)
SkipSpace(s, i) == IF IsSpace(CharAt(s, i)) THEN SkipSpace(s, i + 1) ELSE i

\* the first position at or after i that holds no digit
RECURSIVE SkipDigits(_, _)
SkipDigits(s, i) == IF IsDigit(CharAt(s, i)) THEN SkipDigits(s, i + 1) ELSE i

\* the decimal value of the digits at positions i..(e - 1), after the value v
RECURSIVE DigitsValue(_, _, _, _)
DigitsValue(s, i, e, v) ==
    IF i >= e THEN v ELSE DigitsValue(s, i + 1, e, 10 * v + (s[i] - 48))

\* sscanf(s + i - 1, "%d", &code): white space, an optional sign and digits;
\* n is the return value (1: a number was read), code the number
ScanInt(s, i) ==
    LET j == SkipSpace(s, i)
        signed == CharAt(s, j) \in {43, 45}
        k == IF signed THEN j + 1 ELSE j
        e == SkipDigits(s, k)
        v == DigitsValue(s, k, e, 0)
    IN  IF e = k THEN [n |-> 0, code |-> 0]
        ELSE [n |-> 1, code |-> IF CharAt(s, j) = 45 THEN 0 - v ELSE v]

\* the entities of lines 354-396, in the order they are tried, with the
\* character each one stands for
Entities ==
    << [lit |-> Str(<<"&", "a", "m", "p", ";">>), ch |-> Ord("&")],
       [lit |-> Str(<<"&", "l", "t", ";">>), ch |-> Ord("<")],
       [lit |-> Str(<<"&", "g", "t", ";">>), ch |-> Ord(">")],
       [lit |-> Str(<<"&", "q", "u", "o", "t", ";">>), ch |-> Ord("\"")],
       [lit |-> Str(<<"&", "a", "p", "o", "s", ";">>), ch |-> Ord("'")],
       [lit |-> Str(<<"&", "#", "9", "1", ";">>), ch |-> Ord("[")],
       [lit |-> Str(<<"&", "#", "9", "3", ";">>), ch |-> Ord("]")],
       [lit |-> Str(<<"&", "#", "5", "8", ";">>), ch |-> Ord(":")] >>

\* the entities found at position i
EntitiesAt(s, i) == {k \in DOMAIN Entities : StartsWith(s, i, Entities[k].lit)}

\* *dst = ch
Put(out, dst, ch) ==
    IF dst + 1 \in DOMAIN out THEN [out EXCEPT ![dst + 1] = ch] ELSE Append(out, ch)

\* *dst++ = ch; written++; and the scan goes on at position next
Emit(x, ch, next) ==
    [x EXCEPT !.out = Put(@, x.dst, ch), !.dst = @ + 1, !.written = @ + 1, !.src = next]

\* the loop runs one character too long
ExtractMoreOffByOne(x) == CharAt(x.ssml, x.src) # 0 /\ x.written < x.maxLength

\* line 338, the condition of the loop
ExtractMore(x) == CharAt(x.ssml, x.src) # 0 /\ x.written < x.maxLength - 1

\* lines 339-415, one pass of the loop
ExtractIter(x) ==
    LET s == x.ssml
        c == CharAt(s, x.src)
        found == EntitiesAt(s, x.src)
        first == CHOOSE k \in found : \A j \in found : k <= j
        semi == StrChr(s, x.src, Ord(";"))
        scan == ScanInt(s, x.src + 2)
    IN  IF c = Ord("<") THEN [x EXCEPT !.inTag = TRUE, !.src = @ + 1]
        ELSE IF c = Ord(">") THEN [x EXCEPT !.inTag = FALSE, !.src = @ + 1]
        ELSE IF x.inTag THEN [x EXCEPT !.src = @ + 1]
        ELSE IF c = Ord("&") /\ found # {}
             THEN Emit(x, Entities[first].ch, x.src + Len(Entities[first].lit))
        ELSE IF /\ c = Ord("&") /\ CharAt(s, x.src + 1) = Ord("#")
                /\ semi # NULL /\ semi - x.src < 8
                /\ scan.n = 1 /\ scan.code > 0 /\ scan.code < 256
             THEN Emit(x, scan.code, semi + 1)
        ELSE Emit(x, c, x.src + 1)

\* lines 329-336: a NULL argument or maxLength <= 0: return 0; else start the scan
ExtractEnter ==
    /\ ex.state = "call"
    /\ IF ~ex.hasSsml \/ ~ex.plainText \/ ex.maxLength <= 0
       THEN ex' = [ex EXCEPT !.state = "done", !.result = 0]
       ELSE ex' = [ex EXCEPT !.state = "run", !.src = 1, !.dst = 0, !.written = 0,
                             !.inTag = FALSE]
    /\ UNCHANGED bridge

\* lines 338-416: one pass of the loop
ExtractLoop ==
    /\ ex.state = "run"
    /\ ExtractMore(ex)
    /\ ex' = ExtractIter(ex)
    /\ UNCHANGED bridge

\* lines 418-419: the loop has ended; the terminator is written at dst
ExtractExit ==
    /\ ex.state = "run"
    /\ ~ExtractMore(ex)
    /\ ex' = [ex EXCEPT !.state = "done", !.term = ex.dst, !.result = ex.written]
    /\ UNCHANGED bridge

\* the pieces an input is made of: characters, a tag, the entities of the
\* table, and numeric entities that are well formed, out of range or malformed
Tokens ==
    { Str(<<"a">>), Str(<<"<">>), Str(<<">">>), Str(<<"&">>), Str(<<";">>),
      Str(<<"<", "b", ">">>),
      Str(<<"&", "a", "m", "p", ";">>), Str(<<"&", "l", "t", ";">>),
      Str(<<"&", "g", "t", ";">>), Str(<<"&", "q", "u", "o", "t", ";">>),
      Str(<<"&", "a", "p", "o", "s", ";">>), Str(<<"&", "#", "9", "1", ";">>),
      Str(<<"&", "#", "9", "3", ";">>), Str(<<"&", "#", "5", "8", ";">>),
      Str(<<"&", "#", "6", "5", ";">>), Str(<<"&", "#", "9", "9", "9", ";">>),
      Str(<<"&", "#", "0", ";">>), Str(<<"&", "#", "6", "5", "x", ";">>),
      Str(<<"&", "#", "x", ";">>), Str(<<"&", "#", "6", "5">>),
      Str(<<"&", "#", "0", "0", "0", "6", "5", ";">>),
      Str(<<"&", "#", "0", "0", "0", "0", "6", "5", ";">>),
      Str(<<"&", "#", "+", "6", "5", ";">>), Str(<<"&", "#", "-", "5", ";">>),
      Str(<<"&", "#", " ", "9", ";">>) }

\* the strings of at most k tokens
RECURSIVE TokenStrings(_)
TokenStrings(k) ==
    IF k = 0 THEN {<<>>}
    ELSE LET shorter == TokenStrings(k - 1)
         IN  shorter \cup {p \o t : p \in shorter, t \in Tokens}

ExtractInputs == TokenStrings(MaxTokens)

\* a maxLength no input fills
AmpleLength ==
    1 + MaxTokens * (CHOOSE n \in 1..16 : /\ \A t \in Tokens : Len(t) <= n
                                          /\ \E t \in Tokens : Len(t) = n)

ExtractLengths == {0, 1, 3, AmpleLength}

\* the calls of dectalk_extract_text_from_ssml: every input with every
\* maxLength, and a call with ssml or plainText NULL
ExtractCalls ==
    {[NoEx EXCEPT !.state = "call", !.ssml = s, !.hasSsml = TRUE, !.plainText = TRUE,
                  !.maxLength = n] : s \in ExtractInputs, n \in ExtractLengths}
      \cup {[NoEx EXCEPT !.state = "call", !.hasSsml = FALSE, !.plainText = TRUE,
                         !.maxLength = 1],
            [NoEx EXCEPT !.state = "call", !.ssml = Str(<<"a">>), !.hasSsml = TRUE,
                         !.maxLength = 1]}

(***************************************************************************)
(* Specifications.                                                         *)
(***************************************************************************)
InitSteps(t) ==
    \/ InitCall(t)
    \/ InitLock(t)
    \/ \E h \in Handles : InitStartOk(t, h)
    \/ InitStartFail(t)
    \/ InitSet(t)
    \/ InitVoice(t)

ShutSteps(t) ==
    \/ ShutCall(t)
    \/ ShutLock(t)
    \/ ShutFlag(t)
    \/ ShutRelease(t)
    \/ ShutClear(t)

SynSteps(t, args, sizes, lens, most) ==
    \/ \E a \in args : \E size \in sizes : SynCall(t, a, size)
    \/ SynLock(t)
    \/ SynInitRet(t)
    \/ SynRelock(t)
    \/ SynArgsStep(t)
    \/ SynOpenOk(t)
    \/ SynOpenSet(t)
    \/ SynOpenFail(t)
    \/ SynArm(t)
    \/ SynVoice(t)
    \/ SynText(t)
    \/ SynTextNoMem(t)
    \/ SynSpeakOk(t)
    \/ SynSpeakFail(t)
    \/ \E len \in lens : EngineFill(t, len, most)
    \/ \E len \in lens : EngineKeep(t, len, most)
    \/ SynSync(t)
    \/ SynDrain(t)
    \/ SynDrainEnd(t)
    \/ SynFinish(t)

VoiceSteps(t) ==
    \/ \E v \in VoiceArgs : SetVoice(t, v)
    \/ SetVoiceChk(t)
    \/ SetVoicePush(t)
    \/ GetVoice(t)

ResetSteps(t) ==
    \/ ResetChk(t)
    \/ ResetEngine(t)
    \/ ResetClose(t)
    \/ ResetCloseEngine(t)
    \/ ResetCloseFlag(t)
    \/ SyncChk(t)
    \/ SyncEngine(t)

RateSteps(t) ==
    \/ \E wpm \in RateArgs : SetRateChk(t, wpm)
    \/ SetRateEngine(t)
    \/ GetRateChk(t)
    \/ GetRateEngine(t)
    \/ \E volume \in VolumeArgs : SetVolumeChk(t, volume)
    \/ SetVolumeEngine(t)

\* init, shutdown, synthesize, set_voice, get_voice, reset and sync, from any thread
Next ==
    \E t \in Threads :
        \/ InitSteps(t)
        \/ ShutSteps(t)
        \/ SynSteps(t, SynArgsFew, {1}, {SampleBytes}, 1)
        \/ VoiceSteps(t)
        \/ ResetSteps(t)
        \/ Finish(t)

Spec == Init /\ [][Next]_vars

\* init, shutdown, set_rate, get_rate and set_volume, from any thread, while
\* one thread synthesizes
NextRate ==
    \/ SynSteps(SinkCaller, SynArgsFew, {1}, {SampleBytes}, 1)
    \/ \E t \in Threads :
          \/ InitSteps(t)
          \/ ShutSteps(t)
          \/ RateSteps(t)
          \/ Finish(t)

SpecRate == Init /\ [][NextRate]_vars

\* one thread synthesizes with every buffer size and chunk length, while it and
\* the other threads start and stop the session
NextSink ==
    \/ SynSteps(SinkCaller, SynArgs, BufferSizes, FillLens, MaxDeliver)
    \/ \E t \in Threads :
          \/ InitSteps(t)
          \/ ShutSteps(t)
          \/ Finish(t)

SpecSink == Init /\ [][NextSink]_vars

SwcSteps(t) ==
    \/ \E text \in Texts \cup {NullText} : \E callback \in BOOLEAN :
          SwcCall(t, text, callback)
    \/ SwcNoMem(t)
    \/ SwcDeliver(t)

\* one thread synthesizes, directly and through dectalk_synthesize_with_callback,
\* while it and the other threads start and stop the session
NextCallback ==
    \/ SwcSteps(SinkCaller)
    \/ SynSteps(SinkCaller, SynArgsFew, {1}, FillLens, MaxDeliver)
    \/ \E t \in Threads :
          \/ InitSteps(t)
          \/ ShutSteps(t)
          \/ Finish(t)

SpecCallback == Init /\ [][NextCallback]_vars

\* pthread_mutex_lock returns in thread t
LockSteps(t) ==
    \/ InitLock(t)
    \/ ShutLock(t)
    \/ SynLock(t)
    \/ SynRelock(t)

\* the steps of thread t inside a call, after it has the mutex or without it
BodySteps(t) ==
    \/ \E h \in Handles : InitStartOk(t, h)
    \/ InitStartFail(t)
    \/ InitSet(t)
    \/ InitVoice(t)
    \/ ShutFlag(t)
    \/ ShutRelease(t)
    \/ ShutClear(t)
    \/ SynInitRet(t)
    \/ SynArgsStep(t)
    \/ SynOpenOk(t)
    \/ SynOpenSet(t)
    \/ SynOpenFail(t)
    \/ SynArm(t)
    \/ SynVoice(t)
    \/ SynText(t)
    \/ SynTextNoMem(t)
    \/ SynSpeakOk(t)
    \/ SynSpeakFail(t)
    \/ SynDrain(t)
    \/ SynDrainEnd(t)
    \/ SynFinish(t)

\* init, shutdown and synthesize from any thread
NextLive ==
    \E t \in Threads :
        \/ InitSteps(t)
        \/ ShutSteps(t)
        \/ SynSteps(t, SynArgsFew, {1}, {0, SampleBytes}, 1)
        \/ Finish(t)

\* every thread inside a call is scheduled, a thread waiting for the mutex
\* gets it if it is free again and again, and the engine returns from
\* TextToSpeechSync
SpecLive ==
    /\ Init /\ [][NextLive]_vars
    /\ \A t \in Threads :
          /\ WF_vars(BodySteps(t))
          /\ WF_vars(SynSync(t))
          /\ SF_vars(LockSteps(t))

\* one call of dectalk_extract_text_from_ssml
InitExtract ==
    /\ BridgeInit
    /\ ex \in ExtractCalls

NextExtract ==
    \/ ExtractEnter
    \/ ExtractLoop
    \/ ExtractExit

SpecExtract == InitExtract /\ [][NextExtract]_vars

(***************************************************************************)
(* Properties.                                                             *)
(***************************************************************************)
\* thread t is back from dectalk_synthesize
SynReturned(t) == pc[t] = "ret" /\ loc[t].op = "synthesize"

\* the positions of dectalk_synthesize between the installation of the sink
\* (line 228) and the read of the sample count (line 299)
SynCritical ==
    {"syn_open", "syn_opened", "syn_arm", "syn_voice", "syn_text", "syn_speak", "syn_sync",
     "syn_drain", "syn_fin"}

\* C1: with bufferSize >= 0, dectalk_synthesize returns DECtalkErrorNone and has
\* set *samplesWritten to a count in 0..bufferSize, or it returns InitFailed or
\* SynthFailed and has left *samplesWritten alone.
C1_SynthesizeOutcome ==
    \A t \in Threads :
        SynReturned(t) /\ loc[t].size >= 0 =>
            \/ /\ loc[t].result = DECtalkErrorNone
               /\ loc[t].touched
               /\ 0 <= loc[t].out /\ loc[t].out <= loc[t].size
            \/ /\ loc[t].result \in {DECtalkErrorInitFailed, DECtalkErrorSynthFailed}
               /\ ~loc[t].touched

\* a successful call whose audio was cut to a full buffer
C1_Witness ==
    \E t \in Threads :
        /\ SynReturned(t) /\ loc[t].result = DECtalkErrorNone
        /\ loc[t].size = MaxBufferSize /\ loc[t].out = MaxBufferSize
        /\ loc[t].arg > MaxBufferSize

\* C2: the copies into the installed sink stay inside it: every cell memcpy has
\* written lies in [0, capacity), and the written count is at most the capacity
\* whenever the capacity is not negative.
C2_SinkWithinCapacity ==
    /\ sinkCells \subseteq 0..(g_outputBufferSize - 1)
    /\ g_outputBufferSize >= 0 => g_outputSamplesWritten <= g_outputBufferSize

\* fill notifications and the drain have offered more than the sink holds
C2_Witness ==
    /\ pc[SinkCaller] = "syn_fin"
    /\ delivered > g_outputBufferSize
    /\ g_outputBufferSize = MaxBufferSize
    /\ sinkCells = 0..(MaxBufferSize - 1)

\* C3 as stated: a successful call that was handed more samples than bufferSize
\* returns samplesWritten = bufferSize.
C3_Original ==
    \A t \in Threads :
        SynReturned(t) /\ loc[t].result = DECtalkErrorNone /\ loc[t].arg > loc[t].size
            => loc[t].out = loc[t].size

\* C3, amended: with bufferSize >= 0, a successful call that was handed more
\* samples than bufferSize returns samplesWritten = bufferSize.
C3_TruncatesToCapacity ==
    \A t \in Threads :
        /\ SynReturned(t) /\ loc[t].result = DECtalkErrorNone
        /\ loc[t].size >= 0 /\ loc[t].arg > loc[t].size
        => loc[t].out = loc[t].size

\* the whole utterance offered to a buffer of one sample
C3_Witness ==
    \E t \in Threads :
        /\ SynReturned(t) /\ loc[t].result = DECtalkErrorNone
        /\ loc[t].size = 1 /\ loc[t].arg = MaxDeliver /\ loc[t].out = 1

\* C4: from the installation of its sink to the read of its sample count a
\* synthesize call holds the mutex and owns the sink, and no other call is
\* anywhere between its argument check and its return.
C4_OneSynthesisInFlight ==
    \A t \in Threads :
        pc[t] \in SynCritical =>
            /\ g_mutex = t
            /\ g_outputBuffer = t
            /\ \A u \in Threads \ {t} : pc[u] \notin SynCritical \cup {"syn_args"}

\* one call drains while another waits for the mutex
C4_Witness ==
    \E t, u \in Threads :
        /\ t # u
        /\ pc[t] = "syn_drain"
        /\ pc[u] \in {"syn_lock", "syn_relock"}

\* the positions inside init, shutdown, set_voice, reset, sync, set_rate and
\* set_volume from which the next step reads or writes the session state or
\* calls the engine
SessionOpBody ==
    {"init_start", "init_set", "init_voice", "shut_flag", "shut_rel", "shut_clr", "sv_chk",
     "sv_push", "rst_reset", "rst_close", "rst_closing", "rst_flag", "sync_call",
     "sr_call", "vol_call"}

\* C5: a session-mutating operation touches the session state and the engine
\* only with the mutex held, so no thread is inside the body of one while
\* another thread is inside the critical section of dectalk_synthesize.
C5_SessionOpsUnderMutex ==
    \A t, u \in Threads :
        pc[u] \in SynCritical /\ pc[t] \in SessionOpBody => g_mutex = t

\* C6: a voice staged by set_voice while no session was live is the voice the
\* next synthesize, which initializes the session, sends to the engine, the
\* voice whose command prefixes the text, and still the current voice.
C6_StagedVoiceApplied ==
    \A t \in Threads :
        /\ pc[t] = "syn_speak" /\ loc[t].nested
        /\ \A u \in Threads : pc[u] \notin {"sv_chk", "sv_push"}
        =>
            \A v \in staged :
                /\ loc[t].spk = v
                /\ loc[t].full = g_voiceCommands[v] \o loc[t].text
                /\ g_currentVoice = v

\* the session as the set_rate / get_rate pair found it: live, with a handle
\* the engine accepts
RateSessionLive == SessionLive /\ EngValid(eng, g_ttsHandle)

\* clamp(x, lo, hi)
ClampTo(x, lo, hi) ==
    LET least(a, b) == IF a < b THEN a ELSE b
        most(a, b) == IF a > b THEN a ELSE b
    IN  most(lo, least(x, hi))

\* C7 as stated: in every session state, get_rate right after set_rate(wpm)
\* returns clamp(wpm, 75, 600).
C7_Original == probe.stage = "got" => probe.got = ClampTo(probe.wpm, RateMin, RateMax)

\* C7, amended: get_rate right after set_rate(wpm) returns clamp(wpm, 75, 600)
\* when a session is live, and the default rate 180 when the session is not
\* initialized.
C7_RateRoundTrip ==
    probe.stage = "got" =>
        /\ RateSessionLive => probe.got = ClampTo(probe.wpm, RateMin, RateMax)
        /\ ~SessionLive => probe.got = RateDefault

\* a rate above the range, set and read back on a live session
C7_Witness ==
    /\ probe.stage = "got"
    /\ RateSessionLive
    /\ probe.wpm > RateMax
    /\ probe.got = RateMax

\* a dectalk_shutdown that finds no live session: no engine call, no change
ShutdownIsNoop(t) ==
    pc[t] = "shut_lock" /\ pc'[t] # "shut_lock" /\ ~g_initialized =>
        /\ pc'[t] = "ret"
        /\ UNCHANGED <<eng, globals, g_mutex, releases, ex>>

\* C8: TextToSpeechShutdown is never called on a handle that is already
\* released, and a shutdown with no session is a no-op.
C8_ReleasedOnce ==
    /\ [](~releases)
    /\ [][\A t \in Threads : ShutdownIsNoop(t)]_vars

\* one shutdown has released the session, another has found nothing to do
C8_Witness ==
    \E t, u \in Threads :
        /\ t # u
        /\ pc[t] = "ret" /\ loc[t].op = "shutdown"
        /\ pc[u] = "ret" /\ loc[u].op = "shutdown"
        /\ ~g_initialized /\ g_ttsHandle = NULL /\ eng.live = {}
        /\ g_outputBuffer # NULL

\* the return of dectalk_init
InitReturned(t) == pc'[t] \in {"ret", "syn_initret"}

\* dectalk_init on an initialized session: success, nothing touched
InitIsIdempotent(t) ==
    pc[t] = "init_lock" /\ pc'[t] # "init_lock" /\ g_initialized =>
        /\ InitReturned(t)
        /\ loc'[t].result = DECtalkErrorNone
        /\ UNCHANGED <<g_ttsBuffers, eng, globals, g_mutex>>

\* dectalk_init when startup fails: InitFailed, still uninitialized, unlocked
InitFailureLeavesUninitialized(t) ==
    pc[t] = "init_start" /\ InitReturned(t) =>
        /\ loc'[t].result = DECtalkErrorInitFailed
        /\ ~g_initialized'
        /\ g_mutex' = NULL
        /\ UNCHANGED <<eng, g_ttsHandle>>

\* C9: dectalk_init on an initialized session returns success and touches
\* nothing, so the engine never has two sessions started; a failed startup
\* returns InitFailed and leaves the session uninitialized and unlocked.
C9_InitIdempotent ==
    /\ [](Cardinality(eng.live) <= 1)
    /\ [][\A t \in Threads :
            InitIsIdempotent(t) /\ InitFailureLeavesUninitialized(t)]_vars

\* two callers are back from dectalk_init with success, over one session
C9_Witness ==
    \E t, u \in Threads :
        /\ t # u
        /\ pc[t] = "ret" /\ loc[t].op = "init" /\ loc[t].result = DECtalkErrorNone
        /\ pc[u] = "ret" /\ loc[u].op = "init" /\ loc[u].result = DECtalkErrorNone
        /\ g_initialized /\ Cardinality(eng.live) = 1

\* C10: g_inMemoryOpen implies g_initialized.
C10_InMemoryImpliesInitialized == g_inMemoryOpen => g_initialized

\* dectalk_shutdown has closed in-memory mode and is about to release the
\* session that a synthesize call had opened it on
C10_Witness ==
    \E t \in Threads :
        /\ pc[t] = "shut_rel"
        /\ ~g_inMemoryOpen /\ g_initialized
        /\ g_outputBuffer # NULL

\* thread t is back from dectalk_synthesize_with_callback
SwcReturned(t) == pc[t] = "ret" /\ loc[t].op = "synthesize_with_callback"

\* C11: dectalk_synthesize_with_callback has invoked the callback once if the
\* synthesis returned None with more than 0 samples and not at all otherwise;
\* the count it passed is the samplesWritten of the synthesis and at most
\* 60 * 11025; the callback ran without the mutex, after dectalk_synthesize
\* had returned (never while the call was still inside it).
C11_CallbackOnce ==
    \A t \in Threads :
        /\ SwcReturned(t) =>
              /\ loc[t].calls =
                    (IF loc[t].result = DECtalkErrorNone /\ loc[t].touched
                        /\ loc[t].out > 0 THEN 1 ELSE 0)
              /\ loc[t].calls = 1 =>
                    /\ loc[t].count = loc[t].out
                    /\ loc[t].count <= 60 * 11025
                    /\ ~loc[t].held
        /\ loc[t].wrap => loc[t].calls = 0

\* the callback has been handed the samples of a successful synthesis
C11_Witness ==
    \E t \in Threads :
        /\ SwcReturned(t) /\ loc[t].result = DECtalkErrorNone
        /\ loc[t].calls = 1 /\ loc[t].count = MaxDeliver

\* a successful synthesis of no samples: the callback was not invoked
C11_WitnessSilent ==
    \E t \in Threads :
        /\ SwcReturned(t) /\ loc[t].result = DECtalkErrorNone /\ loc[t].touched
        /\ loc[t].out = 0 /\ loc[t].calls = 0

\* dectalk_extract_text_from_ssml has returned from a call with valid arguments
ExtractDone == ex.state = "done" /\ ex.hasSsml /\ ex.plainText /\ ex.maxLength > 0

\* C12: with maxLength > 0 the extractor writes at most maxLength - 1
\* characters and then one terminator, all below index maxLength, and returns
\* the number of characters written; every pass of its loop moves the scan
\* forward, and the scan never passes the end of the input.
C12_ExtractBounded ==
    /\ [](/\ DOMAIN ex.out \subseteq 1..(ex.maxLength - 1)
          /\ ex.src <= Len(ex.ssml) + 1
          /\ ExtractDone =>
                /\ Len(ex.out) <= ex.maxLength - 1
                /\ ex.term = Len(ex.out) /\ ex.term < ex.maxLength
                /\ ex.result = Len(ex.out))
    /\ [][ex.state = "run" /\ ex'.state = "run" => ex'.src > ex.src]_vars

\* the output is full before the scan is over, in the middle of a malformed
\* numeric entity that is copied character by character
C12_Witness ==
    /\ ExtractDone
    /\ ex.maxLength = 3 /\ ex.result = 2 /\ ex.term = 2
    /\ ex.out = Str(<<"&", "#">>)
    /\ ex.src <= Len(ex.ssml)

\* the text of s outside its tags: s without every '<', the characters that
\* follow it up to the next '>', and that '>' (a '<' that is never closed
\* opens a tag that runs to the end)
RECURSIVE Untagged(_)
Untagged(s) ==
    IF s = <<>> THEN <<>>
    ELSE IF Head(s) = Ord("<")
         THEN LET close == StrChr(s, 1, Ord(">"))
              IN  IF close = NULL THEN <<>> ELSE Untagged(SubSeq(s, close + 1, Len(s)))
         ELSE <<Head(s)>> \o Untagged(Tail(s))

\* character c occurs in s at or after position i
Occurs(s, i, c) == \E k \in DOMAIN s : k >= i /\ s[k] = c

\* C13: with maxLength large enough, the output of the extractor for an input
\* without '&' is the input without its tags: the characters from a '<' to the
\* next '>' are dropped, every character outside a tag is copied, in order.
C13_TextOutsideTagsKept ==
    ExtractDone /\ ex.maxLength > Len(ex.ssml) /\ ~Occurs(ex.ssml, 1, Ord("&"))
        => ex.out = Untagged(ex.ssml)

\* the position of the ';' that closes a numeric entity &#NNN; at the start of
\* s: only decimal digits between "&#" and the ';', which lies within 8
\* characters of the '&'
NumericEntityEnds(s) ==
    {k \in 4..8 : /\ CharAt(s, k) = Ord(";")
                  /\ \A j \in 3..(k - 1) : IsDigit(CharAt(s, j))}

\* C14: with maxLength large enough, an input that starts with "&#" and has no
\* tag and no second '&' comes out with its start decoded to one character if
\* it starts with a numeric entity &#NNN; with 0 < NNN < 256, and comes out
\* unchanged, character by character, in every other case.
C14_NumericEntities ==
    /\ ExtractDone /\ ex.maxLength > Len(ex.ssml)
    /\ StartsWith(ex.ssml, 1, Str(<<"&", "#">>))
    /\ ~Occurs(ex.ssml, 2, Ord("&"))
    /\ ~Occurs(ex.ssml, 1, Ord("<")) /\ ~Occurs(ex.ssml, 1, Ord(">"))
    => LET s == ex.ssml
           ends == NumericEntityEnds(s)
           k == CHOOSE e \in ends : TRUE
           code == DigitsValue(s, 3, k, 0)
       IN  IF ends # {} /\ code > 0 /\ code < 256
           THEN ex.out = <<code>> \o SubSeq(s, k + 1, Len(s))
           ELSE ex.out = s

\* C15: every chunk the engine passes to the fill handler is reset to length
\* zero and queued with the engine again, whatever its length and whatever the
\* room in the sink: while the engine generates the utterance (the caller is
\* inside TextToSpeechSync) the engine holds every chunk of the pool.
C15_ChunkRequeued ==
    \A t \in Threads :
        pc[t] = "syn_sync" /\ eng.mem /\ EngValid(eng, g_ttsHandle) =>
            EngHeld(eng) = Chunks

\* C16: no chunk is handed to the engine while the engine holds it: when
\* dectalk_synthesize is about to hand the chunks of the pool to the engine
\* (TextToSpeechAddBuffer, lines 242-245), the engine holds none of them.
C16_NoChunkQueuedTwice ==
    \A t \in Threads :
        pc[t] = "syn_arm" /\ eng.mem /\ EngValid(eng, g_ttsHandle) =>
            EngHeld(eng) \cap Chunks = {}

\* thread t is inside dectalk_synthesize
SynRunning(t) == loc[t].op = "synthesize" /\ pc[t] # "ret"

\* C17: the sink is installed only while a synthesis runs: when no thread is
\* inside dectalk_synthesize, no sink is installed.
C17_SinkClearedAfterSynthesis ==
    (\A t \in Threads : ~SynRunning(t)) => g_outputBuffer = NULL

\* thread t is back from dectalk_reset, and no other thread is inside a call
ResetReturnedAlone(t) ==
    /\ pc[t] = "ret" /\ loc[t].op = "reset"
    /\ \A u \in Threads \ {t} : pc[u] = "idle"

\* C18: when dectalk_reset returns from a live session on which it found
\* in-memory mode open, in-memory mode is open again; when it returns from a
\* session that was not initialized, it has called nothing and returns 0.
C18_ResetReopens ==
    \A t \in Threads :
        ResetReturnedAlone(t) =>
            /\ loc[t].closed => g_inMemoryOpen /\ eng.mem
            /\ loc[t].h = NULL => loc[t].result = 0

\* the positions of dectalk_synthesize from which the next step calls the
\* engine with g_ttsHandle
SynEngineCall(t) ==
    \/ pc[t] = "syn_open" /\ ~g_inMemoryOpen
    \/ pc[t] \in {"syn_arm", "syn_voice", "syn_speak", "syn_sync", "syn_drain"}

\* the positions of the operations without a lock from which the next step
\* calls the engine with the handle they read
LockFreeEngineCall(t) ==
    \/ pc[t] \in {"sv_push", "rst_reset", "rst_closing", "sync_call", "sr_call",
                  "gr_call", "vol_call"}

\* C20: no engine call is made with a handle that is null or released: a
\* dectalk_synthesize call about to use g_ttsHandle finds the session
\* initialized and the handle live, and so does every other operation that is
\* about to call the engine.
C20_EngineCallsOnLiveHandle ==
    \A t \in Threads :
        /\ SynEngineCall(t) => g_initialized /\ EngValid(eng, g_ttsHandle)
        /\ LockFreeEngineCall(t) => \A h \in HandleRead(t) : EngValid(eng, h)

\* thread t waits in pthread_mutex_lock
WaitsForMutex(t) == pc[t] \in {"init_lock", "shut_lock", "syn_lock", "syn_relock"}

\* a pass of the drain loop takes one chunk from the engine and gives it none
DrainShrinks(t) == SynDrain(t) => Len(eng'.queue) < Len(eng.queue)

\* C19: under fair scheduling, with an engine that returns from every call,
\* every dectalk_synthesize call returns, on every path without the mutex;
\* every thread that waits for the mutex gets past the wait; the drain loop
\* makes at most one pass for each chunk the engine holds.
C19_SynthesizeReturns ==
    /\ \A t \in Threads : SynRunning(t) ~> (SynReturned(t) /\ g_mutex # t)
    /\ \A t \in Threads : WaitsForMutex(t) ~> ~WaitsForMutex(t)
    /\ [](\A t \in Threads : SynReturned(t) => g_mutex # t)
    /\ [](\A t \in Threads : pc[t] = "syn_drain" => Len(eng.queue) <= NUM_BUFFERS)
    /\ [][\A t \in Threads : DrainShrinks(t)]_vars

\* a call has returned with its audio and released the mutex, and the thread
\* that waited for it is now synthesizing
C19_Witness ==
    \E t, u \in Threads :
        /\ t # u
        /\ SynReturned(t) /\ loc[t].result = DECtalkErrorNone /\ loc[t].out = 1
        /\ pc[u] = "syn_drain" /\ g_mutex = u

====
